---- MODULE Spec2Model ----
(***************************************************************************)
(* Model of lib/charms/traefik_k8s/v0/ingress_per_unit.py over one         *)
(* relation between a provider application (units p0, p1) and a requirer   *)
(* application (units r0, r1).  The library object lives in one charm: the *)
(* provider charm (IngressPerUnitProvider, on unit p0, which is or is not  *)
(* the leader) or the requirer charm (IngressPerUnitRequirer, on unit r0). *)
(* The other units appear through the writes made to their databags.       *)
(* SpecTwoRelations gives the provider a second relation on its endpoint   *)
(* (remote unit s0), for what the library computes over self.relations.    *)
(***************************************************************************)
EXTENDS Integers, Sequences, FiniteSets, TLC

VARIABLES
    side,           \* the charm the library objects live in: "provider" or "requirer"
    relApp,         \* relation.app: "named", "empty" (name ""), "none" (None);
                    \* "absent": there is no relation (self.relations is empty)
    relUnits,       \* relation.units: the remote units visible on the relation
    leader,         \* the provider unit for which is_leader() is true
    provData,       \* relation.data[provider app]["data"]
    provVersions,   \* whether relation.data[provider app]["_supported_versions"] is set
    reqData,        \* relation.data[requirer unit]["data"], per requirer unit
    autoData,       \* IngressPerUnitRequirer._auto_data of r0
    broken,         \* IngressPerUnitRequirer.is_relation_broken of r0
    rel2,           \* a second relation of the provider's endpoint (remote unit s0):
                    \* its app, the provider's databag and s0's databag on it
    urlSeen,        \* what url gave r0 at the end of its last pass for a
                    \* relation_changed or relation_broken notification
    lastOp          \* the operation performed by the last step, and its outcome

vars == <<side, relApp, relUnits, leader, provData, provVersions, reqData,
          autoData, broken, rel2, urlSeen, lastOp>>

----------------------------------------------------------------------------
(* Bounds *)

MaxUrl == 2       \* number of distinct (non-empty) URL strings
MaxModel == 2     \* number of distinct (non-empty) model names

ProvUnits == {"p0", "p1"}
ReqUnits == {"r0", "r1"}
Self == "r0"                     \* the requirer unit running the library
ProvSelf == "p0"                 \* the provider unit running the library
Urls == 1..MaxUrl
Models == 1..MaxModel
SelfModel == 1                   \* self.model.name of r0
NoUrl == 0                       \* Python None as the value of url
UrlRaised == -1                  \* url raised instead of returning

----------------------------------------------------------------------------
(* Documents (deserialized YAML) and raw databag values *)

Str(s) == [ty |-> "str", v |-> s]
IntV(s) == [ty |-> "int", v |-> s]

EmptyDoc == [k \in {} |-> k]     \* the dict {}

RequirerRecord(m, n, h, p) ==
    [model |-> Str(m), name |-> Str(n), host |-> Str(h), port |-> IntV(p)]

UrlEntry(u) == [url |-> Str(u)]

Wrap(ingress) == [ingress |-> ingress]

Absent == [t |-> "absent", canon |-> FALSE, doc |-> EmptyDoc]    \* key not set (None)
EmptyText == [t |-> "empty", canon |-> FALSE, doc |-> EmptyDoc]  \* the string ""
Garbage == [t |-> "garbage", canon |-> FALSE, doc |-> EmptyDoc]  \* text that is not YAML
Text(c, d) == [t |-> "text", canon |-> c, doc |-> d]

\* truthiness of a raw value: `if raw:` / `if data:`
Truthy(raw) == raw.t \in {"text", "garbage"}

\* yaml.safe_dump(data, indent=2): the one canonical text of a document
_serialize_data(d) == Text(TRUE, d)

\* yaml.safe_load(data): the document of a text; [exc, doc]
_deserialize_data(raw) ==
    IF raw.t = "garbage" THEN [exc |-> "YAMLError", doc |-> EmptyDoc]
    ELSE [exc |-> "none", doc |-> raw.doc]

HasType(val, ty) == val.ty = ty

\* jsonschema.validate against INGRESS_REQUIRES_UNIT_SCHEMA
ValidRequirerDoc(d) ==
    /\ {"model", "name", "host", "port"} \subseteq DOMAIN d
    /\ \A k \in DOMAIN d \cap {"model", "name", "host"} : HasType(d[k], "str")
    /\ "port" \in DOMAIN d => HasType(d.port, "int")

\* jsonschema.validate against INGRESS_PROVIDES_APP_SCHEMA
ValidProviderDoc(d) ==
    /\ "ingress" \in DOMAIN d
    /\ \A n \in DOMAIN d.ingress :
          /\ "url" \in DOMAIN d.ingress[n]
          /\ HasType(d.ingress[n].url, "str")

\* _validate_data: the exception it raises, or "none"
_validate_data(d, schema) ==
    IF schema = "requirer"
    THEN (IF ValidRequirerDoc(d) THEN "none" ELSE "DataValidationError")
    ELSE (IF ValidProviderDoc(d) THEN "none" ELSE "DataValidationError")

\* the second relation while it does not exist
NoRelation2 == [app |-> "absent", data |-> Absent, req |-> Absent]

----------------------------------------------------------------------------
(* Outcomes of calls: a returned boolean or a raised exception *)

Ret(b) == [ret |-> IF b THEN "true" ELSE "false", exc |-> "none", who |-> "none"]
Raise(e) == [ret |-> "none", exc |-> e, who |-> "none"]
RaiseAt(e, u) == [ret |-> "none", exc |-> e, who |-> u]

IsTrue(o) == o.ret = "true"
IsFalse(o) == o.ret = "false"
Raises(o) == o.exc # "none"

\* the iteration orders of a set of units (relation.units is a Python set)
Orders(S) ==
    {s \in UNION {[1..n -> S] : n \in {Cardinality(S)}} :
        \A i, j \in DOMAIN s : i # j => s[i] # s[j]}

AnyOrder(S) == CHOOSE o \in Orders(S) : TRUE

----------------------------------------------------------------------------
(* _IngressPerUnitBase *)

\* _IngressPerUnitBase.is_available(relation), for a relation whose app is `app`
is_available(app) ==
    IF app = "none" THEN Raise("AttributeError")     \* relation.app.name on None
    ELSE IF app = "empty" THEN Ret(FALSE)
    ELSE Ret(TRUE)

\* _IngressPerUnitBase.is_ready(relation)
base_is_ready(app) ==
    IF app = "none" THEN Ret(FALSE)
    ELSE IF app = "empty" THEN Ret(FALSE)
    ELSE Ret(TRUE)

Ev(name, flag) == [ev |-> name, broken |-> flag]

\* _handle_relation with three independent `if`s in place of the if/elif chain
_handle_relation_no_elif(ready, avail, failed, flag) ==
    [emitted |-> (IF IsTrue(ready) THEN <<Ev("ready", flag)>> ELSE <<>>)
                 \o (IF IsTrue(avail) THEN <<Ev("available", flag)>> ELSE <<>>)
                 \o (IF IsTrue(failed) THEN <<Ev("failed", flag)>> ELSE <<>>),
     exc |-> IF Raises(ready) THEN ready.exc
             ELSE IF Raises(avail) THEN avail.exc
             ELSE failed.exc]

\* _IngressPerUnitBase._handle_relation: ready, avail and failed are the
\* outcomes of self.is_ready, self.is_available and self.is_failed; each is
\* looked at only when the code reaches its call.
_handle_relation(ready, avail, failed, flag) ==
    IF Raises(ready) THEN [emitted |-> <<>>, exc |-> ready.exc]
    ELSE IF IsTrue(ready) THEN [emitted |-> <<Ev("ready", flag)>>, exc |-> "none"]
    ELSE IF Raises(avail) THEN [emitted |-> <<>>, exc |-> avail.exc]
    ELSE IF IsTrue(avail) THEN [emitted |-> <<Ev("available", flag)>>, exc |-> "none"]
    ELSE IF Raises(failed) THEN [emitted |-> <<>>, exc |-> failed.exc]
    ELSE IF IsTrue(failed) THEN [emitted |-> <<Ev("failed", flag)>>, exc |-> "none"]
    ELSE [emitted |-> <<>>, exc |-> "none"]

----------------------------------------------------------------------------
(* IngressPerUnitProvider *)

\* the error that reading the databag of remote unit u gives, or "none"
UnitReadError(u, validate) ==
    IF ~Truthy(reqData[u]) THEN "none"
    ELSE IF _deserialize_data(reqData[u]).exc # "none" THEN _deserialize_data(reqData[u]).exc
    ELSE IF validate THEN _validate_data(_deserialize_data(reqData[u]).doc, "requirer")
    ELSE "none"

\* the document fetched for remote unit u ({} when the databag is empty)
UnitDoc(u) ==
    IF Truthy(reqData[u]) THEN _deserialize_data(reqData[u]).doc ELSE EmptyDoc

\* the error that reading the provider's own application databag gives
AppReadError(validate) ==
    IF ~Truthy(provData) THEN "none"
    ELSE IF _deserialize_data(provData).exc # "none" THEN _deserialize_data(provData).exc
    ELSE IF validate THEN _validate_data(_deserialize_data(provData).doc, "provider")
    ELSE "none"

\* deserialized.get("ingress", {}) of the provider's application databag
AppIngress ==
    IF Truthy(provData) /\ "ingress" \in DOMAIN _deserialize_data(provData).doc
    THEN _deserialize_data(provData).doc.ingress
    ELSE EmptyDoc

\* IngressPerUnitProvider._fetch_relation_data(relation, validate) called by
\* provider unit p, iterating relation.units in the given order
_fetch_relation_data(p, validate, order) ==
    IF relApp # "named"
    THEN [exc |-> "none", prov |-> EmptyDoc, req |-> EmptyDoc]
    ELSE IF p = leader /\ AppReadError(validate) # "none"
    THEN [exc |-> AppReadError(validate), prov |-> EmptyDoc, req |-> EmptyDoc]
    ELSE IF \E i \in DOMAIN order : UnitReadError(order[i], validate) # "none"
    THEN LET i == CHOOSE i \in DOMAIN order :
                    /\ UnitReadError(order[i], validate) # "none"
                    /\ \A j \in 1..(i - 1) : UnitReadError(order[j], validate) = "none"
         IN [exc |-> UnitReadError(order[i], validate), prov |-> EmptyDoc, req |-> EmptyDoc]
    ELSE [exc |-> "none",
          prov |-> IF p = leader THEN AppIngress ELSE EmptyDoc,
          req |-> [u \in relUnits |-> UnitDoc(u)]]

\* IngressPerUnitProvider.is_ready(relation) called by provider unit p
provider_is_ready(p) ==
    IF ~IsTrue(base_is_ready(relApp)) THEN Ret(FALSE)
    ELSE LET f == _fetch_relation_data(p, FALSE, AnyOrder(relUnits))
         IN IF f.exc # "none" THEN Ret(FALSE)
            ELSE Ret(\E u \in DOMAIN f.req : f.req[u] # EmptyDoc)

\* the model check raising with the unit whose model was taken as expected
ModelCheck_first_unit(req, order) ==
    LET withModel == {i \in DOMAIN order : "model" \in DOMAIN req[order[i]]}
        first == CHOOSE i \in withModel : \A j \in withModel : i <= j
        differing == {i \in withModel : req[order[i]].model # req[order[first]].model}
    IN IF withModel = {} \/ differing = {} THEN Ret(FALSE)
       ELSE RaiseAt("RelationDataMismatchError", order[first])

\* the model check also requiring the units' ports to be the same
ModelCheck_with_port(req, order) ==
    LET withModel == {i \in DOMAIN order : "model" \in DOMAIN req[order[i]]}
        first == CHOOSE i \in withModel : \A j \in withModel : i <= j
        differing == {i \in withModel : \/ req[order[i]].model # req[order[first]].model
                                         \/ req[order[i]].port # req[order[first]].port}
        bad == CHOOSE i \in differing : \A j \in differing : i <= j
    IN IF withModel = {} \/ differing = {} THEN Ret(FALSE)
       ELSE RaiseAt("RelationDataMismatchError", order[bad])

\* the cross-unit model check at the end of is_failed, over the fetched data
ModelCheck(req, order) ==
    LET withModel == {i \in DOMAIN order : "model" \in DOMAIN req[order[i]]}
        first == CHOOSE i \in withModel : \A j \in withModel : i <= j
        differing == {i \in withModel : req[order[i]].model # req[order[first]].model}
        bad == CHOOSE i \in differing : \A j \in differing : i <= j
    IN IF withModel = {} \/ differing = {} THEN Ret(FALSE)
       ELSE RaiseAt("RelationDataMismatchError", order[bad])

\* IngressPerUnitProvider.is_failed(relation) called by provider unit p
provider_is_failed(p, order) ==
    IF relApp = "none" THEN Raise("AttributeError")
    ELSE IF relApp = "empty" THEN Ret(FALSE)
    ELSE IF relUnits = {} THEN Ret(FALSE)
    ELSE LET f == _fetch_relation_data(p, TRUE, order)
         IN IF f.exc = "DataValidationError" THEN Ret(TRUE)
            ELSE IF f.exc # "none" THEN Raise(f.exc)
            ELSE ModelCheck(f.req, order)

\* a write to relation.data[self.app] by provider unit p: the framework
\* refuses it (RelationDataError) unless p is the leader
AppDataWrite(p, new) ==
    IF p = leader
    THEN [exc |-> "none", data |-> new, wrote |-> TRUE]
    ELSE [exc |-> "RelationDataError", data |-> provData, wrote |-> TRUE]

\* publish_url writing an aggregate that holds the unit's entry alone
publish_url_overwrite(p, unit_name, url, readOk) ==
    IF p # leader /\ ~readOk
    THEN [exc |-> "ModelError", data |-> provData, wrote |-> FALSE]
    ELSE IF Truthy(provData) /\ _deserialize_data(provData).exc # "none"
    THEN [exc |-> _deserialize_data(provData).exc, data |-> provData, wrote |-> FALSE]
    ELSE LET data == IF Truthy(provData) THEN _deserialize_data(provData).doc
                     ELSE Wrap(EmptyDoc)
         IN IF _validate_data(data, "provider") # "none"
            THEN [exc |-> "none", data |-> provData, wrote |-> FALSE]
            ELSE AppDataWrite(p, _serialize_data(
                    [data EXCEPT !.ingress = [n \in {unit_name} |-> UrlEntry(url)]]))

\* publish_url removing the unit's entry when it is already there
publish_url_toggle(p, unit_name, url, readOk) ==
    IF p # leader /\ ~readOk
    THEN [exc |-> "ModelError", data |-> provData, wrote |-> FALSE]
    ELSE IF Truthy(provData) /\ _deserialize_data(provData).exc # "none"
    THEN [exc |-> _deserialize_data(provData).exc, data |-> provData, wrote |-> FALSE]
    ELSE LET data == IF Truthy(provData) THEN _deserialize_data(provData).doc
                     ELSE Wrap(EmptyDoc)
         IN IF _validate_data(data, "provider") # "none"
            THEN [exc |-> "none", data |-> provData, wrote |-> FALSE]
            ELSE IF unit_name \in DOMAIN data.ingress
            THEN AppDataWrite(p, _serialize_data(
                    [data EXCEPT !.ingress =
                        [n \in DOMAIN data.ingress \ {unit_name} |-> data.ingress[n]]]))
            ELSE AppDataWrite(p, _serialize_data(
                    [data EXCEPT !.ingress =
                        [n \in DOMAIN data.ingress \cup {unit_name} |->
                            IF n = unit_name THEN UrlEntry(url) ELSE data.ingress[n]]]))

\* IngressPerUnitProvider.publish_url(relation, unit_name, url) called by p;
\* readOk: whether the framework lets a non-leader read its application databag
publish_url(p, unit_name, url, readOk) ==
    IF p # leader /\ ~readOk
    THEN [exc |-> "ModelError", data |-> provData, wrote |-> FALSE]
    ELSE IF Truthy(provData) /\ _deserialize_data(provData).exc # "none"
    THEN [exc |-> _deserialize_data(provData).exc, data |-> provData, wrote |-> FALSE]
    ELSE LET data == IF Truthy(provData) THEN _deserialize_data(provData).doc
                     ELSE Wrap(EmptyDoc)
         IN IF _validate_data(data, "provider") # "none"
            THEN [exc |-> "none", data |-> provData, wrote |-> FALSE]
            ELSE AppDataWrite(p, _serialize_data(
                    [data EXCEPT !.ingress =
                        [n \in DOMAIN data.ingress \cup {unit_name} |->
                            IF n = unit_name THEN UrlEntry(url) ELSE data.ingress[n]]]))

\* IngressPerUnitProvider.wipe_ingress_data(relation) called by p
wipe_ingress_data(p) == AppDataWrite(p, EmptyText)

\* publish_ingress_data updating the aggregate already there
publish_ingress_data_merge(p, data) ==
    IF p # leader
    THEN [exc |-> "RelationPermissionError", data |-> provData, wrote |-> FALSE]
    ELSE IF _validate_data(Wrap(data), "provider") # "none"
    THEN [exc |-> "DataValidationError", data |-> provData, wrote |-> FALSE]
    ELSE AppDataWrite(p, _serialize_data(Wrap(
            [n \in DOMAIN AppIngress \cup DOMAIN data |->
                IF n \in DOMAIN data THEN data[n] ELSE AppIngress[n]])))

\* IngressPerUnitProvider.publish_ingress_data(relation, data) called by p
publish_ingress_data(p, data) ==
    IF p # leader
    THEN [exc |-> "RelationPermissionError", data |-> provData, wrote |-> FALSE]
    ELSE IF _validate_data(Wrap(data), "provider") # "none"
    THEN [exc |-> "DataValidationError", data |-> provData, wrote |-> FALSE]
    ELSE AppDataWrite(p, _serialize_data(Wrap(data)))

\* IngressPerUnitProvider._share_version_info: the new value of the
\* "_supported_versions" key
_share_version_info(p) == IF p = leader THEN TRUE ELSE provVersions

\* _emit_request_event observing every notification of the object
_emit_request_event_any(emitted) ==
    IF emitted # <<>> THEN emitted \o <<Ev("request", FALSE)>> ELSE emitted

\* observe(self.on.ready, self._emit_request_event): the notifications
\* raised by a pass once the observer of on.ready has run
_emit_request_event(emitted) ==
    IF emitted # <<>> /\ emitted[1].ev = "ready"
    THEN emitted \o <<Ev("request", FALSE)>>
    ELSE emitted

\* the units of the second relation's remote application
Units2 == {"s0"}

\* the error that reading the databags of the second relation gives to
\* provider unit p (validate=False), or "none"
ReadError2(p) ==
    IF p = leader /\ Truthy(rel2.data) /\ _deserialize_data(rel2.data).exc # "none"
    THEN _deserialize_data(rel2.data).exc
    ELSE IF Truthy(rel2.req) THEN _deserialize_data(rel2.req).exc
    ELSE "none"

\* IngressPerUnitProvider._fetch_relation_data(relation) on the second
\* relation, called by provider unit p
_fetch_relation_data_2(p) ==
    IF rel2.app # "named"
    THEN [exc |-> "none", prov |-> EmptyDoc, req |-> EmptyDoc]
    ELSE IF ReadError2(p) # "none"
    THEN [exc |-> ReadError2(p), prov |-> EmptyDoc, req |-> EmptyDoc]
    ELSE [exc |-> "none",
          prov |-> IF p = leader /\ Truthy(rel2.data)
                                /\ "ingress" \in DOMAIN _deserialize_data(rel2.data).doc
                   THEN _deserialize_data(rel2.data).doc.ingress
                   ELSE EmptyDoc,
          req |-> [u \in Units2 |->
                      IF Truthy(rel2.req) THEN _deserialize_data(rel2.req).doc
                      ELSE EmptyDoc]]

\* proxied_endpoints returning the aggregate of the last relation alone
proxied_endpoints_last_only(p) ==
    LET f1 == _fetch_relation_data(p, FALSE, AnyOrder(relUnits))
        f2 == _fetch_relation_data_2(p)
    IN IF f1.exc # "none" THEN [exc |-> f1.exc, map |-> EmptyDoc]
       ELSE IF rel2.app = "absent" THEN [exc |-> "none", map |-> f1.prov]
       ELSE IF f2.exc # "none" THEN [exc |-> f2.exc, map |-> EmptyDoc]
       ELSE [exc |-> "none", map |-> f2.prov]

\* IngressPerUnitProvider.proxied_endpoints read on provider unit p, over
\* self.relations (the first relation, then the second if it exists):
\* [exc, map]
proxied_endpoints(p) ==
    LET f1 == _fetch_relation_data(p, FALSE, AnyOrder(relUnits))
        f2 == _fetch_relation_data_2(p)
    IN IF f1.exc # "none" THEN [exc |-> f1.exc, map |-> EmptyDoc]
       ELSE IF rel2.app = "absent" THEN [exc |-> "none", map |-> f1.prov]
       ELSE IF f2.exc # "none" THEN [exc |-> f2.exc, map |-> EmptyDoc]
       ELSE [exc |-> "none",
             map |-> [n \in DOMAIN f1.prov \cup DOMAIN f2.prov |->
                         IF n \in DOMAIN f2.prov THEN f2.prov[n] ELSE f1.prov[n]]]

\* IngressPerUnitProvider.is_ready(relation) on the second relation
provider_is_ready_2(p) ==
    IF rel2.app # "named" THEN Ret(FALSE)
    ELSE LET f == _fetch_relation_data_2(p)
         IN IF f.exc # "none" THEN Ret(FALSE)
            ELSE Ret(\E u \in DOMAIN f.req : f.req[u] # EmptyDoc)

\* is_ready looking at the first relation only
provider_is_ready_any_first(p) == provider_is_ready(p)

\* IngressPerUnitProvider.is_ready() without a relation: any() over
\* self.relations
provider_is_ready_any(p) ==
    Ret(\/ IsTrue(provider_is_ready(p))
        \/ rel2.app # "absent" /\ IsTrue(provider_is_ready_2(p)))

----------------------------------------------------------------------------
(* IngressPerUnitRequirer (unit r0) *)

\* IngressPerUnitRequirer.urls: [exc, map]
urls ==
    IF relApp = "absent" \/ broken THEN [exc |-> "none", map |-> EmptyDoc]
    ELSE IF relApp = "none" THEN [exc |-> "AttributeError", map |-> EmptyDoc]
    ELSE LET raw == IF relApp = "named" THEN provData ELSE Absent
         IN IF ~Truthy(raw) THEN [exc |-> "none", map |-> EmptyDoc]
            ELSE IF _deserialize_data(raw).exc # "none"
            THEN [exc |-> _deserialize_data(raw).exc, map |-> EmptyDoc]
            ELSE IF _validate_data(_deserialize_data(raw).doc, "provider") # "none"
            THEN [exc |-> "DataValidationError", map |-> EmptyDoc]
            ELSE [exc |-> "none",
                  map |-> [n \in DOMAIN _deserialize_data(raw).doc.ingress |->
                              _deserialize_data(raw).doc.ingress[n].url.v]]

\* IngressPerUnitRequirer.url: [exc, val]
url ==
    IF urls.exc # "none" THEN [exc |-> urls.exc, val |-> NoUrl]
    ELSE IF urls.map = EmptyDoc THEN [exc |-> "none", val |-> NoUrl]
    ELSE IF Self \in DOMAIN urls.map THEN [exc |-> "none", val |-> urls.map[Self]]
    ELSE [exc |-> "none", val |-> NoUrl]

\* what reading url gives: the URL, NoUrl, or UrlRaised
UrlOutcome == IF url.exc # "none" THEN UrlRaised ELSE url.val

\* IngressPerUnitRequirer.is_ready(relation)
requirer_is_ready ==
    IF IsFalse(base_is_ready(relApp)) THEN Ret(FALSE)
    ELSE IF url.exc # "none" THEN Raise(url.exc)
    ELSE Ret(url.val # NoUrl)

\* IngressPerUnitRequirer.is_failed(relation)
requirer_is_failed ==
    IF relApp = "absent" THEN Ret(FALSE)
    ELSE IF relApp = "none" THEN Raise("AttributeError")
    ELSE IF relApp = "empty" THEN Ret(FALSE)
    ELSE IF relUnits = {} THEN Ret(FALSE)
    ELSE IF ~Truthy(reqData[Self]) THEN Ret(FALSE)
    ELSE IF _deserialize_data(reqData[Self]).exc # "none"
    THEN Raise(_deserialize_data(reqData[Self]).exc)
    ELSE Ret(_validate_data(_deserialize_data(reqData[Self]).doc, "requirer") # "none")

NoHost == "nohost"               \* host=None

\* IngressPerUnitRequirer._publish_ingress_data(host, port): [exc, data]
_publish_ingress_data(host, port) ==
    IF relApp = "absent"
    THEN [exc |-> "AttributeError", data |-> reqData[Self]]   \* self.relation is None
    ELSE [exc |-> "none",
          data |-> _serialize_data(RequirerRecord(SelfModel, Self,
                       IF host = NoHost THEN "bind" ELSE host, port))]

NoAuto == [host |-> NoHost, port |-> "0"]     \* _auto_data = None (no port given)

\* IngressPerUnitRequirer._publish_auto_data(relation): [exc, data]
_publish_auto_data ==
    IF autoData = NoAuto THEN [exc |-> "none", data |-> reqData[Self]]
    ELSE IF Raises(is_available(relApp))
    THEN [exc |-> is_available(relApp).exc, data |-> reqData[Self]]
    ELSE IF IsTrue(is_available(relApp))
    THEN _publish_ingress_data(autoData.host, autoData.port)
    ELSE [exc |-> "none", data |-> reqData[Self]]

----------------------------------------------------------------------------
(* Inputs *)

EventKinds == {"created", "joined", "changed"}

\* what charm code other than this library writes to the provider's databag
ForeignProviderData ==
    {Garbage,
     Text(FALSE, EmptyDoc),                                   \* no "ingress" key
     Text(FALSE, Wrap([n \in {"r1"} |-> EmptyDoc])),          \* an entry without "url"
     Text(FALSE, Wrap([n \in {"r1"} |-> UrlEntry(1)]))}       \* valid, not in safe_dump's layout

\* what is written to a requirer unit's databag other than through this
\* library: r0 is deployed in model SelfModel, r1 in any model, and they
\* serve on different ports; text that is
\* not YAML and the text "{}" are tried on r1, and on r0 where the library
\* reads r0's own databag
ForeignRequirerData(u) ==
    {Absent,
     Text(FALSE, [model |-> Str(1), name |-> Str(u), host |-> Str("h"),
                  port |-> Str("80")])}                       \* port of the wrong type
    \cup {Text(FALSE, RequirerRecord(m, u, "h", IF u = Self THEN "80" ELSE "8080")) :
             m \in IF u = Self THEN {SelfModel} ELSE Models}
    \cup (IF u # Self \/ side = "requirer"
          THEN {Garbage, Text(FALSE, EmptyDoc)} ELSE {})

\* the arguments of publish_ingress_data: three valid aggregates and one
\* aggregate with an entry that has no "url"
PublishAllInputs ==
    {EmptyDoc,
     [n \in {"r0"} |-> UrlEntry(1)],
     [n \in ReqUnits |-> UrlEntry(IF n = "r0" THEN MaxUrl ELSE 1)],
     [n \in {"r0"} |-> EmptyDoc]}

\* the arguments of publish_url: any URL for r0, one URL for r1
PublishUrlInputs == {<<Self, u>> : u \in Urls} \cup {<<"r1", 1>>}

RequestInputs == {<<NoHost, "80">>, <<"h", "8080">>}

AutoDataInputs == {NoAuto, [host |-> NoHost, port |-> "80"]}

\* what the second relation's databags are given: aggregates for s0 alone,
\* and one that also has an entry for r1
PublishAll2Inputs ==
    {[n \in {"s0"} |-> UrlEntry(u)] : u \in Urls}
    \cup {[n \in {"s0", "r1"} |-> UrlEntry(MaxUrl)]}

ForeignRequirerData2 ==
    {Absent, Garbage, Text(FALSE, RequirerRecord(SelfModel, "s0", "h", "80"))}

\* the units of the remote application that come and go (the requirer only
\* looks at whether relation.units is empty)
RemoteUnits == IF side = "provider" THEN ReqUnits ELSE {ProvSelf}

----------------------------------------------------------------------------
(* State machine *)

\* lastOp: op and by name the operation and the unit it ran on, kind the
\* relation event, isLeader whether that unit was the leader; exc and who are
\* the exception that came out of it, emitted the notifications it raised in
\* order, status what get_status returned; wrote tells that a write of the
\* provider's databag was attempted, changed that the databag's content
\* changed; name, url and agg are the arguments of publish_url and
\* publish_ingress_data (agg also holds what proxied_endpoints returned, url
\* also what urlSeen was when a pass of the requirer began);
\* ret is the boolean a predicate returned.
BaseOp ==
    [op |-> "init", by |-> "none", kind |-> "none", isLeader |-> FALSE,
     exc |-> "none", who |-> "none", emitted |-> <<>>, status |-> "none",
     wrote |-> FALSE, changed |-> FALSE,
     name |-> "none", url |-> NoUrl, agg |-> EmptyDoc, ret |-> "none"]

Init ==
    /\ side \in {"provider", "requirer"}
    /\ relApp = IF side = "provider" THEN "named" ELSE "absent"
    /\ relUnits = {}
    /\ leader = "p0"
    /\ provData = Absent
    /\ provVersions = FALSE
    /\ reqData = [u \in ReqUnits |-> Absent]
    /\ autoData \in IF side = "provider" THEN {NoAuto} ELSE AutoDataInputs
    /\ broken = FALSE
    /\ rel2 = NoRelation2
    /\ urlSeen = NoUrl
    /\ lastOp = BaseOp

(* environment *)

\* the relation appears, its remote application becomes unresolved (as in a
\* relation-broken hook), or the relation goes away
EnvRelation(a) ==
    /\ a # relApp
    /\ a = "absent" => side = "requirer"
    /\ relApp' = a
    /\ relUnits' = {}
    /\ lastOp' = [BaseOp EXCEPT !.op = "env"]
    /\ UNCHANGED <<urlSeen, rel2, side, leader, provData, provVersions, reqData, autoData, broken>>

\* a remote unit joins or departs the relation
EnvUnits(u) ==
    /\ relApp = "named"
    /\ relUnits' = IF u \in relUnits THEN relUnits \ {u} ELSE relUnits \cup {u}
    /\ lastOp' = [BaseOp EXCEPT !.op = "env"]
    /\ UNCHANGED <<urlSeen, rel2, side, relApp, leader, provData, provVersions, reqData, autoData, broken>>

\* leadership of the provider application moves to unit p
EnvLeaderElected(p) ==
    /\ side = "provider"
    /\ p # leader
    /\ leader' = p
    /\ lastOp' = [BaseOp EXCEPT !.op = "env"]
    /\ UNCHANGED <<urlSeen, rel2, side, relApp, relUnits, provData, provVersions, reqData, autoData, broken>>

\* charm code on the provider's leader writes the provider's databag directly
ForeignProviderWrite(raw) ==
    /\ provData' = raw
    /\ lastOp' = [BaseOp EXCEPT !.op = "foreign_write", !.by = leader, !.isLeader = TRUE,
                                !.wrote = TRUE, !.changed = (raw # provData)]
    /\ UNCHANGED <<urlSeen, rel2, side, relApp, relUnits, leader, provVersions, reqData, autoData, broken>>

\* a requirer unit's databag is written other than through this library (in
\* the requirer charm, only r0's own databag is read)
ForeignRequirerWrite(u, raw) ==
    /\ side = "requirer" => u = Self
    /\ reqData' = [reqData EXCEPT ![u] = raw]
    /\ lastOp' = [BaseOp EXCEPT !.op = "env"]
    /\ UNCHANGED <<urlSeen, rel2, side, relApp, relUnits, leader, provData, provVersions, autoData, broken>>

(* provider *)

\* relation_created / relation_joined / relation_changed delivered to the
\* provider object of unit p: _handle_relation, then (relation_joined only)
\* _share_version_info
ProviderRelationEvent(p, kind) ==
    LET h == _handle_relation(provider_is_ready(p), is_available(relApp),
                              provider_is_failed(p, AnyOrder(relUnits)), FALSE)
        emitted == _emit_request_event(h.emitted)
        shim == kind = "joined" /\ h.exc = "none"
    IN /\ side = "provider"
       /\ provVersions' = IF shim THEN _share_version_info(p) ELSE provVersions
       /\ lastOp' = [BaseOp EXCEPT !.op = "relation_event", !.by = p, !.kind = kind,
                                   !.isLeader = (p = leader), !.exc = h.exc,
                                   !.emitted = emitted,
                                   !.wrote = (shim /\ p = leader),
                                   !.changed = (provVersions' # provVersions)]
       /\ UNCHANGED <<urlSeen, rel2, side, relApp, relUnits, leader, provData, reqData, autoData, broken>>

\* relation_broken delivered to the provider object of unit p
ProviderRelationBroken(p) ==
    /\ side = "provider"
    /\ lastOp' = [BaseOp EXCEPT !.op = "relation_broken", !.by = p,
                                !.isLeader = (p = leader),
                                !.emitted = <<Ev("broken", FALSE)>>]
    /\ UNCHANGED <<urlSeen, rel2, side, relApp, relUnits, leader, provData, provVersions, reqData,
                   autoData, broken>>

\* publish_url called on unit p
PublishUrl(p, unit_name, u) ==
    \E readOk \in IF p = leader THEN {TRUE} ELSE BOOLEAN :
        LET r == publish_url(p, unit_name, u, readOk)
        IN /\ provData' = r.data
           /\ lastOp' = [BaseOp EXCEPT !.op = "publish_url", !.by = p,
                                       !.isLeader = (p = leader), !.exc = r.exc,
                                       !.wrote = r.wrote, !.changed = (r.data # provData),
                                       !.name = unit_name, !.url = u]
           /\ UNCHANGED <<urlSeen, rel2, side, relApp, relUnits, leader, provVersions, reqData,
                          autoData, broken>>

\* publish_ingress_data called on unit p
PublishAll(p, data) ==
    LET r == publish_ingress_data(p, data)
    IN /\ provData' = r.data
       /\ lastOp' = [BaseOp EXCEPT !.op = "publish_all", !.by = p,
                                   !.isLeader = (p = leader), !.exc = r.exc,
                                   !.wrote = r.wrote, !.changed = (r.data # provData),
                                   !.agg = data]
       /\ UNCHANGED <<urlSeen, rel2, side, relApp, relUnits, leader, provVersions, reqData,
                      autoData, broken>>

\* wipe_ingress_data clearing the requirer units' databags as well
Wipe_all(p) ==
    LET r == wipe_ingress_data(p)
    IN /\ provData' = r.data
       /\ reqData' = [u \in ReqUnits |-> IF r.exc = "none" THEN Absent ELSE reqData[u]]
       /\ lastOp' = [BaseOp EXCEPT !.op = "wipe", !.by = p,
                                   !.isLeader = (p = leader), !.exc = r.exc,
                                   !.wrote = r.wrote, !.changed = (r.data # provData)]
       /\ UNCHANGED <<urlSeen, rel2, side, relApp, relUnits, leader, provVersions,
                      autoData, broken>>

\* wipe_ingress_data called on unit p
Wipe(p) ==
    LET r == wipe_ingress_data(p)
    IN /\ provData' = r.data
       /\ lastOp' = [BaseOp EXCEPT !.op = "wipe", !.by = p,
                                   !.isLeader = (p = leader), !.exc = r.exc,
                                   !.wrote = r.wrote, !.changed = (r.data # provData)]
       /\ UNCHANGED <<urlSeen, rel2, side, relApp, relUnits, leader, provVersions, reqData,
                      autoData, broken>>

\* _IngressPerUnitBase.get_status(relation), from the outcomes of the
\* object's is_failed, is_available and is_ready: [status, exc, who]
get_status(failed, avail, ready) ==
    IF Raises(failed) THEN [status |-> "none", exc |-> failed.exc, who |-> failed.who]
    ELSE IF IsTrue(failed) THEN [status |-> "blocked", exc |-> "none", who |-> "none"]
    ELSE IF Raises(avail) THEN [status |-> "none", exc |-> avail.exc, who |-> avail.who]
    ELSE IF ~IsTrue(avail) THEN [status |-> "waiting", exc |-> "none", who |-> "none"]
    ELSE IF Raises(ready) THEN [status |-> "none", exc |-> ready.exc, who |-> ready.who]
    ELSE IF ~IsTrue(ready) THEN [status |-> "waiting", exc |-> "none", who |-> "none"]
    ELSE [status |-> "active", exc |-> "none", who |-> "none"]

\* get_status called on the provider object of unit p
ProviderGetStatus(p) ==
    \E order \in Orders(relUnits) :
        LET r == get_status(provider_is_failed(p, order), is_available(relApp),
                            provider_is_ready(p))
        IN /\ side = "provider"
           /\ lastOp' = [BaseOp EXCEPT !.op = "get_status", !.by = p,
                                       !.isLeader = (p = leader), !.exc = r.exc,
                                       !.who = r.who, !.status = r.status]
           /\ UNCHANGED <<urlSeen, rel2, side, relApp, relUnits, leader, provData, provVersions, reqData,
                          autoData, broken>>

\* proxied_endpoints read on unit p
ProxiedEndpoints(p) ==
    LET r == proxied_endpoints(p)
    IN /\ side = "provider"
       /\ lastOp' = [BaseOp EXCEPT !.op = "proxied_endpoints", !.by = p,
                                   !.isLeader = (p = leader), !.exc = r.exc,
                                   !.agg = r.map]
       /\ UNCHANGED <<urlSeen, rel2, side, relApp, relUnits, leader, provData, provVersions,
                      reqData, autoData, broken>>

(* requirer r0 *)

\* IngressPerUnitRequirer._handle_relation(event): [emitted, exc, data]
requirer_handle_relation ==
    LET h == _handle_relation(requirer_is_ready, is_available(relApp),
                              requirer_is_failed, broken)
    IN IF h.exc # "none"
       THEN [emitted |-> h.emitted, exc |-> h.exc, data |-> reqData[Self]]
       ELSE [emitted |-> h.emitted, exc |-> _publish_auto_data.exc,
             data |-> _publish_auto_data.data]

\* _emit_ingress_change_event clearing is_relation_broken on other events
_emit_ingress_change_event_reset(isBrokenEvent) ==
    [flag |-> isBrokenEvent, emitted |-> <<Ev("ingress_changed", isBrokenEvent)>>]

\* _emit_ingress_change_event notifying on relation_broken only
_emit_ingress_change_event_broken_only(isBrokenEvent) ==
    LET flag == IF isBrokenEvent THEN TRUE ELSE broken
    IN [flag |-> flag,
        emitted |-> IF isBrokenEvent THEN <<Ev("ingress_changed", flag)>> ELSE <<>>]

\* _emit_ingress_change_event leaving is_relation_broken alone
_emit_ingress_change_event_no_flag(isBrokenEvent) ==
    [flag |-> broken, emitted |-> <<Ev("ingress_changed", broken)>>]

\* IngressPerUnitRequirer._emit_ingress_change_event(event): [flag, emitted]
_emit_ingress_change_event(isBrokenEvent) ==
    LET flag == IF isBrokenEvent THEN TRUE ELSE broken
    IN [flag |-> flag, emitted |-> <<Ev("ingress_changed", flag)>>]

\* relation_created / relation_joined / relation_changed delivered to the
\* requirer object: _handle_relation, then (relation_changed only)
\* _emit_ingress_change_event
RequirerRelationEvent(kind) ==
    LET h == requirer_handle_relation
        second == kind = "changed" /\ h.exc = "none"
    IN /\ side = "requirer"
       /\ relApp # "absent"
       /\ reqData' = [reqData EXCEPT ![Self] = h.data]
       /\ broken' = IF second THEN _emit_ingress_change_event(FALSE).flag ELSE broken
       /\ lastOp' = [BaseOp EXCEPT !.op = "relation_event", !.by = Self, !.kind = kind,
                                   !.exc = h.exc, !.url = urlSeen,
                                   !.emitted = IF second
                                               THEN h.emitted \o _emit_ingress_change_event(FALSE).emitted
                                               ELSE h.emitted]
       /\ UNCHANGED <<rel2, side, relApp, relUnits, leader, provData, provVersions, autoData>>
       /\ urlSeen' = IF kind = "changed" THEN UrlOutcome' ELSE urlSeen

\* relation_broken delivered to the requirer object: _handle_relation_broken,
\* then _emit_ingress_change_event
RequirerRelationBroken ==
    /\ side = "requirer"
    /\ relApp # "absent"
    /\ broken' = _emit_ingress_change_event(TRUE).flag
    /\ lastOp' = [BaseOp EXCEPT !.op = "relation_broken", !.by = Self, !.url = urlSeen,
                                !.emitted = <<Ev("broken", broken)>>
                                            \o _emit_ingress_change_event(TRUE).emitted]
    /\ UNCHANGED <<rel2, side, relApp, relUnits, leader, provData, provVersions, reqData,
                   autoData>>
    /\ urlSeen' = UrlOutcome'

\* get_status called on the requirer object
RequirerGetStatus ==
    LET r == get_status(requirer_is_failed, is_available(relApp), requirer_is_ready)
    IN /\ side = "requirer"
       /\ relApp # "absent"
       /\ lastOp' = [BaseOp EXCEPT !.op = "get_status", !.by = Self, !.exc = r.exc,
                                   !.who = r.who, !.status = r.status]
       /\ UNCHANGED <<urlSeen, rel2, side, relApp, relUnits, leader, provData, provVersions, reqData,
                      autoData, broken>>

\* leader_elected / upgrade_charm delivered to the requirer object
RequirerUpgradeOrLeader ==
    LET r == IF relApp = "absent" THEN [exc |-> "none", data |-> reqData[Self]]
             ELSE _publish_auto_data
    IN /\ side = "requirer"
       /\ reqData' = [reqData EXCEPT ![Self] = r.data]
       /\ lastOp' = [BaseOp EXCEPT !.op = "upgrade_or_leader", !.by = Self, !.exc = r.exc]
       /\ UNCHANGED <<urlSeen, rel2, side, relApp, relUnits, leader, provData, provVersions,
                      autoData, broken>>

\* IngressPerUnitRequirer.request(host=, port=)
Request(host, port) ==
    LET r == _publish_ingress_data(host, port)
    IN /\ side = "requirer"
       /\ reqData' = [reqData EXCEPT ![Self] = r.data]
       /\ lastOp' = [BaseOp EXCEPT !.op = "request", !.by = Self, !.exc = r.exc]
       /\ UNCHANGED <<urlSeen, rel2, side, relApp, relUnits, leader, provData, provVersions,
                      autoData, broken>>

Next ==
    \/ \E a \in {"absent", "named", "empty", "none"} : EnvRelation(a)
    \/ \E u \in RemoteUnits : EnvUnits(u)
    \/ \E p \in ProvUnits : EnvLeaderElected(p)
    \/ \E raw \in ForeignProviderData : ForeignProviderWrite(raw)
    \/ \E u \in ReqUnits : \E raw \in ForeignRequirerData(u) : ForeignRequirerWrite(u, raw)
    \/ \E kind \in EventKinds : ProviderRelationEvent(ProvSelf, kind)
    \/ ProviderRelationBroken(ProvSelf)
    \/ \E i \in PublishUrlInputs : PublishUrl(ProvSelf, i[1], i[2])
    \/ \E data \in PublishAllInputs : PublishAll(ProvSelf, data)
    \/ Wipe(ProvSelf)
    \/ ProviderGetStatus(ProvSelf)
    \/ \E kind \in EventKinds : RequirerRelationEvent(kind)
    \/ RequirerRelationBroken
    \/ RequirerGetStatus
    \/ RequirerUpgradeOrLeader
    \/ \E i \in RequestInputs : Request(i[1], i[2])
    \/ ProxiedEndpoints(ProvSelf)

Spec == Init /\ [][Next]_vars

(* a provider with two relations on its endpoint *)

\* the second relation appears, its remote application becomes unresolved,
\* or the relation goes away
EnvRelation2(a) ==
    /\ side = "provider"
    /\ a # rel2.app
    /\ rel2' = IF a = "absent" THEN NoRelation2 ELSE [rel2 EXCEPT !.app = a]
    /\ lastOp' = [BaseOp EXCEPT !.op = "env"]
    /\ UNCHANGED <<urlSeen, side, relApp, relUnits, leader, provData, provVersions, reqData,
                   autoData, broken>>

\* unit s0 writes its databag on the second relation
ForeignRequirerWrite2(raw) ==
    /\ rel2.app # "absent"
    /\ rel2' = [rel2 EXCEPT !.req = raw]
    /\ lastOp' = [BaseOp EXCEPT !.op = "env"]
    /\ UNCHANGED <<urlSeen, side, relApp, relUnits, leader, provData, provVersions, reqData,
                   autoData, broken>>

\* charm code on the provider's leader writes text that is not YAML to the
\* provider's databag of the second relation
ForeignProviderWrite2(raw) ==
    /\ rel2.app # "absent"
    /\ rel2' = [rel2 EXCEPT !.data = raw]
    /\ lastOp' = [BaseOp EXCEPT !.op = "foreign_write", !.by = leader, !.isLeader = TRUE,
                                !.wrote = TRUE, !.changed = (raw # rel2.data)]
    /\ UNCHANGED <<urlSeen, side, relApp, relUnits, leader, provData, provVersions, reqData,
                   autoData, broken>>

\* publish_ingress_data called on unit p for the second relation
PublishAll2(p, data) ==
    LET r == publish_ingress_data(p, data)
    IN /\ rel2.app # "absent"
       /\ rel2' = IF r.exc = "none" THEN [rel2 EXCEPT !.data = r.data] ELSE rel2
       /\ lastOp' = [BaseOp EXCEPT !.op = "publish_all", !.by = p,
                                   !.isLeader = (p = leader), !.exc = r.exc,
                                   !.wrote = r.wrote, !.changed = (rel2' # rel2),
                                   !.agg = data]
       /\ UNCHANGED <<urlSeen, side, relApp, relUnits, leader, provData, provVersions, reqData,
                      autoData, broken>>

\* is_ready() called on unit p without a relation
IsReadyAny(p) ==
    /\ lastOp' = [BaseOp EXCEPT !.op = "is_ready", !.by = p,
                                !.isLeader = (p = leader),
                                !.ret = provider_is_ready_any(p).ret]
    /\ UNCHANGED <<urlSeen, rel2, side, relApp, relUnits, leader, provData, provVersions,
                   reqData, autoData, broken>>

InitTwoRelations == Init /\ side = "provider"

NextTwoRelations ==
    \/ \E a \in {"named", "none"} : EnvRelation(a)
    \/ EnvUnits("r1")
    \/ \E p \in ProvUnits : EnvLeaderElected(p)
    \/ ForeignProviderWrite(Garbage)
    \/ \E raw \in ForeignRequirerData("r1") : ForeignRequirerWrite("r1", raw)
    \/ \E i \in PublishUrlInputs : PublishUrl(ProvSelf, i[1], i[2])
    \/ Wipe(ProvSelf)
    \/ \E a \in {"absent", "named", "none"} : EnvRelation2(a)
    \/ \E raw \in ForeignRequirerData2 : ForeignRequirerWrite2(raw)
    \/ ForeignProviderWrite2(Garbage)
    \/ \E data \in PublishAll2Inputs : PublishAll2(ProvSelf, data)
    \/ ProxiedEndpoints(ProvSelf)
    \/ IsReadyAny(ProvSelf)

SpecTwoRelations == InitTwoRelations /\ [][NextTwoRelations]_vars

----------------------------------------------------------------------------
(* Properties *)

IsSignal(e) == e.ev \in {"ready", "available", "failed"}

\* the Ready / Available / Failed notifications among those raised, in order
SignalNames(es) ==
    LET sig == SelectSeq(es, IsSignal) IN [i \in DOMAIN sig |-> sig[i].ev]

\* the outcomes of the predicates of the library object in the current state
ReadyOutcome ==
    IF side = "provider" THEN provider_is_ready(ProvSelf) ELSE requirer_is_ready

AvailableOutcome == is_available(relApp)

FailedOutcomes ==
    IF side = "provider"
    THEN {provider_is_failed(ProvSelf, o) : o \in Orders(relUnits)}
    ELSE {requirer_is_failed}

\* C1: a handling pass for a created/joined/changed notification raises at
\* most one of Ready, Available, Failed: Ready if is_ready; otherwise
\* Available if is_available; otherwise Failed if is_failed; otherwise none.
\* (The pass leaves what the predicates read as it was, so they are
\* evaluated in the state after the pass.)
C1_HandlerPriority ==
    lastOp.op = "relation_event" =>
        /\ Len(SignalNames(lastOp.emitted)) <= 1
        /\ IsTrue(ReadyOutcome) => SignalNames(lastOp.emitted) = <<"ready">>
        /\ IsFalse(ReadyOutcome) /\ IsTrue(AvailableOutcome)
              => SignalNames(lastOp.emitted) = <<"available">>
        /\ IsFalse(ReadyOutcome) /\ IsFalse(AvailableOutcome)
              => \A f \in FailedOutcomes :
                    /\ IsTrue(f) => SignalNames(lastOp.emitted) = <<"failed">>
                    /\ IsFalse(f) => SignalNames(lastOp.emitted) = <<>>

\* a pass that found the relation available but not ready, in each charm
C1_Witness ==
    /\ lastOp.op = "relation_event"
    /\ IsFalse(ReadyOutcome)
    /\ IsTrue(AvailableOutcome)
    /\ SignalNames(lastOp.emitted) = <<"available">>
    /\ side = "requirer"

\* C2: while the remote application is unresolved (relation.app is None or
\* has an empty name), is_available is false and is_ready is false.
C2_UnresolvedNotAvailableNotReady ==
    relApp \in {"empty", "none"} =>
        /\ IsFalse(AvailableOutcome)
        /\ IsFalse(ReadyOutcome)

\* C3: is_available, is_ready and is_failed never raise, whatever the
\* databags hold.
C3_PredicatesNeverRaise ==
    relApp # "absent" =>
        /\ ~Raises(AvailableOutcome)
        /\ ~Raises(ReadyOutcome)
        /\ \A f \in FailedOutcomes : ~Raises(f)

\* two visible requirer units with schema-valid records of different models,
\* on an available relation of the provider
TwoModels ==
    /\ side = "provider"
    /\ relApp = "named"
    /\ relUnits = ReqUnits
    /\ \A u \in ReqUnits : reqData[u].t = "text" /\ ValidRequirerDoc(reqData[u].doc)
    /\ reqData["r0"].doc.model # reqData["r1"].doc.model

OwnDataReadable == ProvSelf = leader => AppReadError(TRUE) = "none"

C5_NonLeaderPublishUrlDenied ==
    lastOp.op = "publish_url" /\ ~lastOp.isLeader =>
        /\ lastOp.exc = "RelationPermissionError"
        /\ ~lastOp.changed

\* C6: publish_ingress_data on a non-leader raises RelationPermissionError
\* without attempting the write; on the leader, with a schema-valid
\* aggregate, it leaves exactly that aggregate in the databag.
C6_PublishAll ==
    lastOp.op = "publish_all" =>
        /\ ~lastOp.isLeader
              => /\ lastOp.exc = "RelationPermissionError"
                 /\ ~lastOp.wrote
                 /\ ~lastOp.changed
        /\ lastOp.isLeader /\ ValidProviderDoc(Wrap(lastOp.agg))
              => /\ lastOp.exc = "none"
                 /\ provData = _serialize_data(Wrap(lastOp.agg))
                 /\ _deserialize_data(provData).doc = Wrap(lastOp.agg)

\* the leader replaced a different content by an aggregate for r0 alone
C6_Witness ==
    /\ lastOp.op = "publish_all"
    /\ lastOp.isLeader
    /\ lastOp.changed
    /\ DOMAIN lastOp.agg = {"r0"}
    /\ AppIngress = lastOp.agg

\* C7: every change of the provider's databag is made by the leader, and a
\* provider unit that is not the leader does not attempt to write it.
C7_SingleWriter ==
    /\ lastOp.changed => lastOp.isLeader
    /\ lastOp.wrote => lastOp.isLeader

\* C8: once the requirer has handled relation_broken, urls is empty and url
\* is None, also while the provider's databag holds a valid aggregate and
\* the remote application is resolved.
C8_TeardownHidesUrls ==
    (side = "requirer" /\ lastOp.op = "relation_broken") \/ broken =>
        /\ urls = [exc |-> "none", map |-> EmptyDoc]
        /\ url = [exc |-> "none", val |-> NoUrl]

\* relation_broken was handled and a URL for r0 is still in the databag
C8_Witness ==
    /\ side = "requirer"
    /\ lastOp.op = "relation_broken"
    /\ broken
    /\ relApp = "named"
    /\ provData.t = "text"
    /\ ValidProviderDoc(provData.doc)
    /\ Self \in DOMAIN provData.doc.ingress

\* the record _publish_auto_data writes for r0
AutoRecord ==
    _serialize_data(RequirerRecord(SelfModel, Self,
        IF autoData.host = NoHost THEN "bind" ELSE autoData.host, autoData.port))

\* C9: for a requirer built with a port and no host, after a
\* created/joined/changed notification on an available relation r0's
\* databag holds its record with the bind address; and when the leader then
\* publishes a URL for r0, url is that URL and is_ready is true.
C9_Scenario ==
    side = "requirer" /\ autoData # NoAuto /\ autoData.host = NoHost /\ relApp = "named" =>
        /\ lastOp.op = "relation_event" => reqData[Self] = AutoRecord
        /\ lastOp.op = "publish_url" /\ lastOp.isLeader /\ lastOp.name = Self
              /\ reqData[Self] = AutoRecord
              => /\ url = [exc |-> "none", val |-> lastOp.url]
                 /\ IsTrue(requirer_is_ready)

\* C10: publish_url called by the leader twice in a row with the same unit
\* name and URL leaves the databag after the second call as it was after
\* the first.
C10_PublishUrlIdempotent ==
    [][(/\ lastOp.op = "publish_url" /\ lastOp.isLeader
        /\ lastOp'.op = "publish_url" /\ lastOp'.isLeader
        /\ lastOp'.name = lastOp.name /\ lastOp'.url = lastOp.url)
       => provData' = provData]_vars

\* a publish_url by the leader that found the unit's URL already there
C10_Witness ==
    /\ lastOp.op = "publish_url"
    /\ lastOp.isLeader
    /\ lastOp.exc = "none"
    /\ lastOp.wrote
    /\ ~lastOp.changed
    /\ lastOp.name \in DOMAIN AppIngress
    /\ AppIngress[lastOp.name] = UrlEntry(lastOp.url)

\* a databag of the provider that is not set, empty, or holds a schema-valid
\* aggregate, and the peer-to-entry mapping in it
ValidOrNone(raw) == ~Truthy(raw) \/ (raw.t = "text" /\ ValidProviderDoc(raw.doc))

IngressOf(raw) == IF Truthy(raw) THEN raw.doc.ingress ELSE EmptyDoc

\* two relations whose aggregates have disjoint peer sets
DisjointAggregates ==
    /\ rel2.app # "absent"
    /\ ValidOrNone(provData)
    /\ ValidOrNone(rel2.data)
    /\ DOMAIN IngressOf(provData) \cap DOMAIN IngressOf(rel2.data) = {}

\* what was returned is the union of the two aggregates
ReturnedUnion ==
    /\ lastOp.exc = "none"
    /\ DOMAIN lastOp.agg = DOMAIN IngressOf(provData) \cup DOMAIN IngressOf(rel2.data)
    /\ Cardinality(DOMAIN lastOp.agg)
          = Cardinality(DOMAIN IngressOf(provData)) + Cardinality(DOMAIN IngressOf(rel2.data))
    /\ \A n \in DOMAIN IngressOf(provData) : lastOp.agg[n] = IngressOf(provData)[n]
    /\ \A n \in DOMAIN IngressOf(rel2.data) : lastOp.agg[n] = IngressOf(rel2.data)[n]

BothReadable ==
    /\ relApp = "named"
    /\ rel2.app = "named"
    /\ \A u \in relUnits : reqData[u].t # "garbage"
    /\ rel2.req.t # "garbage"

C12_PublishUrlResetsCorrupt ==
    [][(/\ lastOp'.op = "publish_url"
        /\ lastOp'.isLeader
        /\ \/ provData = Absent
           \/ provData.t = "text" /\ ~ValidProviderDoc(provData.doc))
       => /\ lastOp'.exc = "none"
          /\ provData'.t = "text"
          /\ ValidProviderDoc(provData'.doc)
          /\ lastOp'.name \in DOMAIN provData'.doc.ingress
          /\ provData'.doc.ingress[lastOp'.name] = UrlEntry(lastOp'.url)
          /\ side = "requirer" /\ relApp = "named" /\ ~broken
                => /\ urls'.exc = "none"
                   /\ lastOp'.name \in DOMAIN urls'.map
                   /\ urls'.map[lastOp'.name] = lastOp'.url]_vars

IsReadyEv(e) == e.ev = "ready"

IsRequestEv(e) == e.ev = "request"

\* C13: a pass of the provider that raises Ready raises exactly one Request
\* right after it, and a pass that does not raise Ready raises no Request.
C13_RequestWithReady ==
    side = "provider" =>
        /\ Len(SelectSeq(lastOp.emitted, IsRequestEv))
              = Len(SelectSeq(lastOp.emitted, IsReadyEv))
        /\ Len(SelectSeq(lastOp.emitted, IsReadyEv)) <= 1
        /\ \A i \in DOMAIN lastOp.emitted :
              lastOp.emitted[i].ev = "request"
                  => i > 1 /\ lastOp.emitted[i - 1].ev = "ready"

\* a pass of the provider found the relation ready
C13_Witness ==
    /\ side = "provider"
    /\ lastOp.op = "relation_event"
    /\ IsTrue(provider_is_ready(ProvSelf))
    /\ lastOp.emitted = <<Ev("ready", FALSE), Ev("request", FALSE)>>

\* the relation of the requirer exists and is_available returns true for it
RequirerAvailable == relApp # "absent" /\ IsTrue(is_available(relApp))

\* C14: for a requirer built with auto-publish data, a pass for a
\* created/joined/changed, leader-elected or upgrade notification writes
\* r0's record with that data if the relation is available, whatever the
\* databag held, and leaves r0's databag alone if it is not.
C14_AutoPublishOnEveryPass ==
    [][(/\ side = "requirer"
        /\ autoData # NoAuto
        /\ lastOp'.op \in {"relation_event", "upgrade_or_leader"})
       => IF RequirerAvailable
          THEN reqData'[Self] = AutoRecord
          ELSE reqData'[Self] = reqData[Self]]_vars

\* C15: get_status returns exactly one of Blocked, Waiting and Active:
\* Blocked if is_failed; otherwise Waiting if the relation is not available
\* or not ready; otherwise Active.
C15_StatusPriority ==
    lastOp.op = "get_status" =>
        /\ lastOp.exc = "none"
        /\ lastOp.status \in {"blocked", "waiting", "active"}
        /\ \A f \in FailedOutcomes :
              /\ lastOp.status = "blocked" <=> IsTrue(f)
              /\ lastOp.status = "waiting"
                    <=> /\ IsFalse(f)
                        /\ IsFalse(AvailableOutcome) \/ IsFalse(ReadyOutcome)
              /\ lastOp.status = "active"
                    <=> IsFalse(f) /\ IsTrue(AvailableOutcome) /\ IsTrue(ReadyOutcome)

IsIngressChangedEv(e) == e.ev = "ingress_changed"

\* a pass of the requirer for relation_changed or relation_broken
ChangedOrBrokenPass(op) ==
    \/ op.op = "relation_event" /\ op.by = Self /\ op.kind = "changed"
    \/ op.op = "relation_broken" /\ op.by = Self

\* C16: a pass of the requirer for relation_changed or relation_broken
\* after which url returns a value (a URL or None) other than what it gave
\* at the end of the previous such pass raises ingress_changed.
C16_IngressChangedOnUrlChange ==
    [][(/\ side = "requirer"
        /\ ChangedOrBrokenPass(lastOp')
        /\ UrlOutcome' # UrlRaised
        /\ UrlOutcome' # urlSeen)
       => SelectSeq(lastOp'.emitted, IsIngressChangedEv) # <<>>]_vars

\* relation_changed was handled after the URL of r0 had been replaced by
\* another one
C16_Witness ==
    /\ side = "requirer"
    /\ lastOp.op = "relation_event"
    /\ lastOp.kind = "changed"
    /\ lastOp.url = 1
    /\ urlSeen = MaxUrl
    /\ lastOp.emitted = <<Ev("ready", FALSE), Ev("ingress_changed", FALSE)>>

\* some visible requirer unit's databag holds a non-empty record
NonEmptyRecord1 == \E u \in relUnits : reqData[u].t = "text" /\ reqData[u].doc # EmptyDoc

NonEmptyRecord2 == rel2.req.t = "text" /\ rel2.req.doc # EmptyDoc

\* every databag of the relation that the provider unit reads is parseable
Parseable1 ==
    /\ ProvSelf = leader => provData.t # "garbage"
    /\ \A u \in relUnits : reqData[u].t # "garbage"

Parseable2 ==
    /\ ProvSelf = leader => rel2.data.t # "garbage"
    /\ rel2.req.t # "garbage"

AllPartitionsValid ==
    /\ ValidOrNone(provData)
    /\ \A u \in relUnits :
          ~Truthy(reqData[u]) \/ (reqData[u].t = "text" /\ ValidRequirerDoc(reqData[u].doc))

\* the units that have written a record all report the same model
SameModel ==
    \A u, v \in {w \in relUnits : Truthy(reqData[w])} :
        reqData[u].doc.model = reqData[v].doc.model

\* C18: on an available relation with units, where every non-empty databag
\* is schema-valid and the units that have written report the same model,
\* is_failed is false, whatever their ports and whoever has not written.
C18_SameModelNotFailed ==
    side = "provider" /\ relApp = "named" /\ relUnits # {} /\ AllPartitionsValid /\ SameModel
        => \A o \in Orders(relUnits) : provider_is_failed(ProvSelf, o) = Ret(FALSE)

\* get_status found nothing failed with two units of one model on two ports
C18_Witness ==
    /\ side = "provider"
    /\ relApp = "named"
    /\ relUnits = ReqUnits
    /\ AllPartitionsValid
    /\ \A u \in ReqUnits : Truthy(reqData[u])
    /\ SameModel
    /\ reqData["r0"].doc.port # reqData["r1"].doc.port
    /\ lastOp.op = "get_status"
    /\ lastOp.status = "active"

\* some non-empty databag that the provider unit reads fails its schema
SchemaFailing ==
    \/ ProvSelf = leader /\ provData.t = "text" /\ ~ValidProviderDoc(provData.doc)
    \/ \E u \in relUnits : reqData[u].t = "text" /\ ~ValidRequirerDoc(reqData[u].doc)

\* C19: _fetch_relation_data(relation, validate=True) gives empty structures
\* for databags that are not set or empty; when a non-empty databag it reads
\* fails its schema it raises DataValidationError and returns nothing, and
\* is_failed is then true on an available relation with units.
C19_FetchValidates ==
    side = "provider" /\ relApp = "named" =>
        \A o \in Orders(relUnits) :
            LET f == _fetch_relation_data(ProvSelf, TRUE, o)
            IN /\ f.exc = "none"
                    => /\ ~Truthy(provData) => f.prov = EmptyDoc
                       /\ \A u \in relUnits : ~Truthy(reqData[u]) => f.req[u] = EmptyDoc
               /\ ~SchemaFailing /\ Parseable1 => f.exc = "none"
               /\ SchemaFailing
                    => /\ f.exc = "DataValidationError"
                       /\ f.prov = EmptyDoc
                       /\ f.req = EmptyDoc
                       /\ relUnits # {} => provider_is_failed(ProvSelf, o) = Ret(TRUE)

\* C20: with one leader, a publish_url by the leader on a databag that is
\* not set, empty or schema-valid sets the entry of the named unit to the
\* URL and leaves every other unit's entry as it was, and a wipe by the
\* leader leaves the aggregate empty; so after any sequence of such calls
\* the aggregate maps each unit published since the last wipe to the URL
\* published for it last.
C20_NoLostUpdate ==
    [][(/\ lastOp'.op \in {"publish_url", "wipe"}
        /\ lastOp'.isLeader
        /\ ValidOrNone(provData))
       => /\ lastOp'.exc = "none"
          /\ ValidOrNone(provData')
          /\ lastOp'.op = "wipe" => IngressOf(provData') = EmptyDoc
          /\ lastOp'.op = "publish_url"
                => IngressOf(provData')
                      = [n \in DOMAIN IngressOf(provData) \cup {lastOp'.name} |->
                            IF n = lastOp'.name THEN UrlEntry(lastOp'.url)
                            ELSE IngressOf(provData)[n]]]_vars

\* the leader published a URL for r1 next to the one r0 already had
C20_Witness ==
    /\ lastOp.op = "publish_url"
    /\ lastOp.isLeader
    /\ lastOp.changed
    /\ lastOp.name = "r1"
    /\ ValidOrNone(provData)
    /\ IngressOf(provData) = [n \in ReqUnits |-> UrlEntry(IF n = "r0" THEN MaxUrl ELSE 1)]

\* C21: each notification the requirer raises in a pass for relation_broken
\* (Broken and ingress_changed) is delivered with is_relation_broken
\* already set, so that urls read by its handler is empty.
C21_TeardownFlagSetAtDelivery ==
    side = "requirer" /\ lastOp.op = "relation_broken" =>
        /\ \E i \in DOMAIN lastOp.emitted : lastOp.emitted[i].ev = "broken"
        /\ \E i \in DOMAIN lastOp.emitted : lastOp.emitted[i].ev = "ingress_changed"
        /\ \A i \in DOMAIN lastOp.emitted : lastOp.emitted[i].broken

\* the operations of the library on the requirer unit, on a provider unit,
\* and those that are predicates or read views
RequirerOp(o) ==
    /\ o.by = Self
    /\ o.op \in {"relation_event", "relation_broken", "upgrade_or_leader", "request",
                 "get_status"}

ProviderOp(o) ==
    /\ o.by \in ProvUnits
    /\ o.op \in {"relation_event", "relation_broken", "publish_url", "publish_all", "wipe",
                 "get_status", "proxied_endpoints"}

ReadOp(o) == o.op \in {"get_status", "proxied_endpoints"}

\* C22: an operation of the requirer changes at most r0's own databag; an
\* operation of the provider changes at most the provider's application
\* databag; get_status and proxied_endpoints (and the predicates and views
\* they evaluate) change no databag.
C22_PartitionOwnership ==
    [][/\ RequirerOp(lastOp')
             => /\ provData' = provData
                /\ provVersions' = provVersions
                /\ rel2' = rel2
                /\ \A u \in ReqUnits \ {Self} : reqData'[u] = reqData[u]
       /\ ProviderOp(lastOp')
             => /\ reqData' = reqData
                /\ rel2'.req = rel2.req
       /\ ReadOp(lastOp')
             => /\ provData' = provData
                /\ provVersions' = provVersions
                /\ reqData' = reqData
                /\ rel2' = rel2]_vars

\* request wrote r0's record next to an aggregate of the provider
C22_Witness ==
    /\ side = "requirer"
    /\ lastOp.op = "request"
    /\ lastOp.exc = "none"
    /\ reqData[Self] = _serialize_data(RequirerRecord(SelfModel, Self, "h", "8080"))
    /\ provData.t = "text"
    /\ ValidProviderDoc(provData.doc)
    /\ DOMAIN provData.doc.ingress = ReqUnits

\* C23: the handler of created/joined/changed never raises Failed, in
\* either role: where the relation is unavailable (its app has an empty
\* name) is_failed is false and a pass raises none of Ready, Available and
\* Failed, and a pass on an available relation raises Ready or Available.
C23_FailedNeverRaised ==
    /\ relApp = "empty" => \A f \in FailedOutcomes : IsFalse(f)
    /\ lastOp.op = "relation_event"
          => /\ \A i \in DOMAIN lastOp.emitted : lastOp.emitted[i].ev # "failed"
             /\ relApp = "empty" => SignalNames(lastOp.emitted) = <<>>
             /\ relApp = "named"
                   => SignalNames(lastOp.emitted) \in {<<"ready">>, <<"available">>}

\* C24: is_relation_broken is false at construction, becomes true only in a
\* pass for relation_broken, and is never cleared; while it is set, urls
\* is empty, url is None, is_ready is false and no pass raises Ready,
\* whatever relation and provider data come afterwards.
C24_BrokenFlagMonotonic ==
    /\ ~broken
    /\ [][/\ broken => broken'
          /\ broken' /\ ~broken => lastOp'.op = "relation_broken" /\ lastOp'.by = Self
          /\ broken'
                => /\ urls' = [exc |-> "none", map |-> EmptyDoc]
                   /\ url' = [exc |-> "none", val |-> NoUrl]
                   /\ IsFalse(requirer_is_ready')
                   /\ \A i \in DOMAIN lastOp'.emitted : lastOp'.emitted[i].ev # "ready"]_vars

\* after the teardown, a pass on a resolved relation whose provider databag
\* holds a URL for r0 raised Available
C24_Witness ==
    /\ side = "requirer"
    /\ broken
    /\ lastOp.op = "relation_event"
    /\ relApp = "named"
    /\ provData.t = "text"
    /\ ValidProviderDoc(provData.doc)
    /\ Self \in DOMAIN provData.doc.ingress
    /\ SignalNames(lastOp.emitted) = <<"available">>

====
